---- MODULE Spec2Model ----
(***************************************************************************)
(* A model of the TradingView screener query builder (Query, And, Or) of   *)
(* src/src/types.ts (its lines 41-554 are the query module).               *)
(*                                                                         *)
(* A builder is its two private fields, the document `query` and the       *)
(* endpoint `url`.  The document keeps the order in which its keys were    *)
(* created and, for each key, whether it is absent, undefined or set.      *)
(* The arrays and objects that the code writes into in place (range and    *)
(* symbols) are cells of a heap, so that two holders of one array are      *)
(* seen to share it; the fields the code only ever replaces are kept by    *)
(* value.  A string the code edits (the endpoint) is a sequence of tokens. *)
(***************************************************************************)
EXTENDS Integers, Sequences, FiniteSets, TLC

VARIABLES
    live,    \* the builders that exist: "q" is new Query(), "c" is q.copy()
    doc,     \* doc[b]: the private field `query` of builder b
    url,     \* url[b]: the private field `url` of builder b
    heap,    \* the cells: DEFAULT_RANGE, the range and symbols of the documents
    held,    \* the array the caller passed to setProperty and still holds
    calls,   \* number of configuration calls made so far
    last,    \* the most recent call and its arguments
    rel,     \* how the call before it relates to it: "same" method and builder
             \* with other arguments, the "dual" of limit/offset, or "other"
    comp,    \* the composite the caller built last with And / Or
    made,    \* the And / Or call that built it: its operator and arguments
    exec     \* exec[b]: the getScannerData(Raw) call on builder b, if any

builderVars == <<live, doc, url, heap, held, calls, last, rel>>
exprVars == <<comp, made>>
vars == <<live, doc, url, heap, held, calls, last, rel, comp, made, exec>>

----------------------------------------------------------------------------
(* Bounds of the model *)

MaxCalls == 4
MaxOperands == 2
MaxDepth == 2
MaxExecs == 2

----------------------------------------------------------------------------
(* Values *)

Builders == {"q", "c"}

Keys == {"markets", "symbols", "options", "columns", "sort", "range",
         "filter", "filter2", "preset"}

RangeSet(s) == {s[i] : i \in 1..Len(s)}

Opt(has, xs) == [has |-> has, xs |-> xs]
NoList == Opt(FALSE, <<>>)

----------------------------------------------------------------------------
(* Constants of the query module *)

DefaultRangeValue == <<0, 50>>

Origin == "https://scanner.tradingview.com/"
MarketSlot == "{market}"
URL == <<Origin, MarketSlot, "/scan">>

----------------------------------------------------------------------------
(* The heap *)

\* A cell is a range array [lo, hi] or a symbols object {query, tickers,
\* symbolset}; one record shape serves both.
FreeCell == [kind |-> "free", v |-> <<0, 0>>, query |-> FALSE,
             tickers |-> NoList, symbolset |-> NoList]
RangeCell(v) == [FreeCell EXCEPT !.kind = "range", !.v = v]
SymbolsCell(query, tickers, symbolset) ==
    [FreeCell EXCEPT !.kind = "symbols", !.query = query, !.tickers = tickers,
                     !.symbolset = symbolset]

\* The holders of references, in a fixed order.  A cell is named by the place
\* of its first holder, so that two states which differ only in the numbering
\* of the cells are one state; a cell nobody holds is garbage.
NoRef == 0
DefaultRangeRef == 1
RootSeq(d, hl) ==
    <<DefaultRangeRef,
      IF d["q"].st["range"] = "set" THEN d["q"].range ELSE NoRef,
      IF d["q"].st["symbols"] = "set" THEN d["q"].symbols ELSE NoRef,
      IF d["c"].st["range"] = "set" THEN d["c"].range ELSE NoRef,
      IF d["c"].st["symbols"] = "set" THEN d["c"].symbols ELSE NoRef,
      hl>>

NumRoots == Len(RootSeq([b \in Builders |-> [st |-> [k \in Keys |-> "absent"]]], NoRef))

\* Cells a method call may allocate, before the renaming.
FreshRange == NumRoots + 1
FreshSymbols == NumRoots + 2
FreshHeld == NumRoots + 3
Refs == 1..(NumRoots + 3)

FirstIdx(R, r) == CHOOSE i \in 1..Len(R) : R[i] = r /\ \A j \in 1..(i - 1) : R[j] # r

Rename(R, r) == IF r = NoRef THEN NoRef ELSE FirstIdx(R, r)

CanonDoc(R, d) == [d EXCEPT !.range = IF d.st["range"] = "set" THEN Rename(R, @) ELSE NoRef,
                            !.symbols = IF d.st["symbols"] = "set" THEN Rename(R, @) ELSE NoRef]

CanonHeap(R, h) ==
    [i \in Refs |-> IF i <= Len(R) /\ R[i] # NoRef /\ FirstIdx(R, R[i]) = i
                    THEN h[R[i]] ELSE FreeCell]

----------------------------------------------------------------------------
(* Documents *)

NoTree == [operator |-> "none", operands |-> <<>>]
NoSort == [sortBy |-> "", sortOrder |-> "", nullsFirst |-> "absent"]

\* {} : no key, and the typed defaults that stand behind absent keys.
EmptyDoc ==
    [order |-> <<>>, st |-> [k \in Keys |-> "absent"],
     markets |-> <<>>, columns |-> <<>>, filter |-> <<>>, filter2 |-> NoTree,
     sort |-> NoSort, range |-> NoRef, symbols |-> NoRef]

\* obj[k] = <a value>: a new key is appended to the object's key order, an
\* existing key keeps its place.
Assign(d, k) ==
    [d EXCEPT !.order = IF k \in RangeSet(@) THEN @ ELSE Append(@, k),
              !.st[k] = "set"]

\* !obj[k]
Falsy(d, k) == d.st[k] # "set"

\* A builder as a method sees it: its document, its endpoint and the heap.
View(d, u, h) == [d |-> d, u |-> u, h |-> h]

----------------------------------------------------------------------------
(* Query: constructor and configuration methods *)

\* String.prototype.replace(pattern, replacement) with a string pattern: the
\* first occurrence of the pattern is replaced by the replacement, in which
\* $$ stands for "$", $& for the matched text, $` for the text before the
\* match and $' for the text after it.  The pattern is one token.
RECURSIVE GetSubstitution(_, _, _, _)
GetSubstitution(matched, before, after, replacement) ==
    IF replacement = <<>> THEN <<>>
    ELSE IF Head(replacement) = "$" /\ Len(replacement) >= 2
                /\ replacement[2] \in {"$", "&", "`", "'"}
         THEN (CASE replacement[2] = "$" -> <<"$">>
                 [] replacement[2] = "&" -> matched
                 [] replacement[2] = "`" -> before
                 [] replacement[2] = "'" -> after)
              \o GetSubstitution(matched, before, after,
                                 SubSeq(replacement, 3, Len(replacement)))
         ELSE <<Head(replacement)>>
              \o GetSubstitution(matched, before, after, Tail(replacement))

StringReplace(str, pattern, replacement) ==
    IF pattern \notin RangeSet(str) THEN str
    ELSE LET p == CHOOSE i \in 1..Len(str) :
                     str[i] = pattern /\ \A j \in 1..(i - 1) : str[j] # pattern
             before == SubSeq(str, 1, p - 1)
             after == SubSeq(str, p + 1, Len(str))
         IN before \o GetSubstitution(<<pattern>>, before, after, replacement) \o after

DefaultColumns == <<"name", "close", "volume", "market_cap_basic">>
DefaultSort == [sortBy |-> "Value.Traded", sortOrder |-> "desc", nullsFirst |-> "absent"]
America == <<"america">>
AmericaUrl == <<Origin, "america", "/scan">>

\* A constructor whose range is DEFAULT_RANGE itself (no spread).
ConstructSharingDefault(h) ==
    View([order |-> <<"markets", "symbols", "options", "columns", "sort", "range">>,
          st |-> [k \in Keys |-> IF k \in {"filter", "filter2", "preset"}
                                 THEN "absent" ELSE "set"],
          markets |-> <<America>>, columns |-> DefaultColumns,
          filter |-> <<>>, filter2 |-> NoTree, sort |-> DefaultSort,
          range |-> DefaultRangeRef, symbols |-> FreshSymbols],
         AmericaUrl,
         [h EXCEPT ![FreshSymbols] = SymbolsCell(TRUE, Opt(TRUE, <<>>), NoList)])

\* constructor(): the keys in the order of the literal; range is a new array
\* with the elements DEFAULT_RANGE has at that moment.
Construct(h) ==
    View([order |-> <<"markets", "symbols", "options", "columns", "sort", "range">>,
          st |-> [k \in Keys |-> IF k \in {"filter", "filter2", "preset"}
                                 THEN "absent" ELSE "set"],
          markets |-> <<America>>, columns |-> DefaultColumns,
          filter |-> <<>>, filter2 |-> NoTree, sort |-> DefaultSort,
          range |-> FreshRange, symbols |-> FreshSymbols],
         AmericaUrl,
         [h EXCEPT ![FreshRange] = RangeCell(h[DefaultRangeRef].v),
                   ![FreshSymbols] = SymbolsCell(TRUE, Opt(TRUE, <<>>), NoList)])

\* A select() or orderBy() argument is a Column or a string.
Col(name) == [column |-> TRUE, name |-> name, str |-> ""]
Name(str) == [column |-> FALSE, name |-> "", str |-> str]

\* col instanceof Column ? col.name : col
ColumnName(col) == IF col.column THEN col.name ELSE col.str

\* A select that adds to the columns instead of replacing them.
SelectAppending(V, columns) ==
    [V EXCEPT !.d = [Assign(@, "columns") EXCEPT
                        !.columns = @ \o [i \in 1..Len(columns) |-> ColumnName(columns[i])]]]

Select(V, columns) ==
    [V EXCEPT !.d = [Assign(@, "columns") EXCEPT
                        !.columns = [i \in 1..Len(columns) |-> ColumnName(columns[i])]]]

\* A where that also clears the second filter.
WhereAlone(V, expressions) ==
    [V EXCEPT !.d = [Assign(Assign(@, "filter"), "filter2") EXCEPT
                        !.filter = expressions, !.filter2 = NoTree]]

Where(V, expressions) ==
    [V EXCEPT !.d = [Assign(@, "filter") EXCEPT !.filter = expressions]]

Where2(V, operation) ==
    [V EXCEPT !.d = [Assign(@, "filter2") EXCEPT !.filter2 = operation.operation]]

\* An optional boolean parameter is "true", "false" or "omitted"; an omitted
\* one takes the default of the signature.
Param(given, default) == IF given = "omitted" THEN default ELSE given

\* An orderBy whose direction defaults to descending.
OrderByDescending(V, column, ascending, nullsFirst) ==
    [V EXCEPT !.d = [Assign(@, "sort") EXCEPT
                        !.sort = [sortBy |-> ColumnName(column),
                                  sortOrder |-> IF Param(ascending, "false") = "true"
                                                THEN "asc" ELSE "desc",
                                  nullsFirst |-> Param(nullsFirst, "false")]]]

OrderBy(V, column, ascending, nullsFirst) ==
    [V EXCEPT !.d = [Assign(@, "sort") EXCEPT
                        !.sort = [sortBy |-> ColumnName(column),
                                  sortOrder |-> IF Param(ascending, "true") = "true"
                                                THEN "asc" ELSE "desc",
                                  nullsFirst |-> Param(nullsFirst, "false")]]]

\* if (!this.query.range) this.query.range = [...DEFAULT_RANGE]
EnsureRange(V) ==
    IF Falsy(V.d, "range")
    THEN [V EXCEPT !.d = [Assign(@, "range") EXCEPT !.range = FreshRange],
                   !.h[FreshRange] = RangeCell(V.h[DefaultRangeRef].v)]
    ELSE V

\* this.query.range[i] = n: a write into the array the field refers to
SetRangeAt(V, i, n) == [V EXCEPT !.h[V.d.range].v[i] = n]

\* A limit that starts from a new default range on every call.
LimitFromDefault(V, limit) ==
    [V EXCEPT !.d = [Assign(@, "range") EXCEPT !.range = FreshRange],
              !.h[FreshRange] = RangeCell(<<V.h[DefaultRangeRef].v[1], limit>>)]

Limit(V, limit) == SetRangeAt(EnsureRange(V), 2, limit)

\* An offset that leaves the range as the lone offset.
OffsetAlone(V, offset) ==
    [V EXCEPT !.d = [Assign(@, "range") EXCEPT !.range = FreshRange],
              !.h[FreshRange] = RangeCell(<<offset>>)]

Offset(V, offset) == SetRangeAt(EnsureRange(V), 1, offset)

SetMarkets(V, markets) ==
    IF Len(markets) = 1
    THEN [V EXCEPT !.u = StringReplace(URL, MarketSlot, markets[1]),
                   !.d = [Assign(@, "markets") EXCEPT !.markets = <<markets[1]>>]]
    ELSE [V EXCEPT !.u = StringReplace(URL, MarketSlot, <<"global">>),
                   !.d = [Assign(@, "markets") EXCEPT !.markets = markets]]

\* if (!this.query.symbols) this.query.symbols = {}
EnsureSymbols(V) ==
    IF Falsy(V.d, "symbols")
    THEN [V EXCEPT !.d = [Assign(@, "symbols") EXCEPT !.symbols = FreshSymbols],
                   !.h[FreshSymbols] = SymbolsCell(FALSE, NoList, NoList)]
    ELSE V

\* A setTickers that leaves the market scope as it is.
SetTickersKeepingMarkets(V, tickers) ==
    LET V1 == EnsureSymbols(V)
    IN [V1 EXCEPT !.h[V1.d.symbols].tickers = Opt(TRUE, tickers)]

SetTickers(V, tickers) ==
    LET V1 == EnsureSymbols(V)
    IN SetMarkets([V1 EXCEPT !.h[V1.d.symbols].tickers = Opt(TRUE, tickers)], <<>>)

SetIndex(V, indexes) ==
    LET V1 == EnsureSymbols([V EXCEPT !.d = Assign(@, "preset")])
    IN SetMarkets([V1 EXCEPT !.h[V1.d.symbols].symbolset = Opt(TRUE, indexes)], <<>>)

\* setProperty('markets', <array>): the document refers to the given array.
\* (No method writes into a markets array, so its value stands for it.)
SetPropertyMarkets(V, value) ==
    [V EXCEPT !.d = [Assign(@, "markets") EXCEPT !.markets = value]]

\* setProperty('range', undefined)
SetPropertyRangeUndefined(V) ==
    [V EXCEPT !.d = [Assign(@, "range") EXCEPT !.st["range"] = "undef", !.range = NoRef]]

\* setProperty('range', <array>): the document refers to the caller's array.
SetPropertyRange(V, ref) ==
    [V EXCEPT !.d = [Assign(@, "range") EXCEPT !.range = ref]]

\* setProperty('columns', undefined)
SetPropertyColumnsUndefined(V) ==
    [V EXCEPT !.d = [Assign(@, "columns") EXCEPT !.st["columns"] = "undef", !.columns = <<>>]]

\* JSON.parse(JSON.stringify(document)): the keys in the document's order, a
\* key whose value is undefined left out, every array and object a new one.
\* (The documents of the model hold finite numbers, strings and booleans,
\* which JSON keeps.)
IsDefined(d, k) == d.st[k] # "undef"
JsonCopy(V) ==
    LET keep(k) == IsDefined(V.d, k)
    IN [V EXCEPT
          !.d = [@ EXCEPT
                   !.order = SelectSeq(@, keep),
                   !.st = [k \in Keys |-> IF V.d.st[k] = "undef" THEN "absent"
                                          ELSE V.d.st[k]],
                   !.range = IF V.d.st["range"] = "set" THEN FreshRange ELSE NoRef,
                   !.symbols = IF V.d.st["symbols"] = "set" THEN FreshSymbols ELSE NoRef],
          !.h = [@ EXCEPT
                   ![FreshRange] = IF V.d.st["range"] = "set"
                                   THEN RangeCell(V.h[V.d.range].v) ELSE FreeCell,
                   ![FreshSymbols] = IF V.d.st["symbols"] = "set"
                                     THEN V.h[V.d.symbols] ELSE FreeCell]]

\* JSON.stringify(document): the keys that hold a value, in the document's
\* key order, each with its value.
Stringify(d, h) ==
    LET keep(k) == d.st[k] = "set"
    IN [keys |-> SelectSeq(d.order, keep),
        markets |-> IF keep("markets") THEN d.markets ELSE <<>>,
        columns |-> IF keep("columns") THEN d.columns ELSE <<>>,
        filter |-> IF keep("filter") THEN d.filter ELSE <<>>,
        filter2 |-> IF keep("filter2") THEN d.filter2 ELSE NoTree,
        sort |-> IF keep("sort") THEN d.sort ELSE NoSort,
        range |-> IF keep("range") THEN h[d.range].v ELSE <<>>,
        symbols |-> IF keep("symbols") THEN h[d.symbols] ELSE FreeCell]

\* this.equals(other), on the views of the two builders
Equals(V, W) == Stringify(V.d, V.h) = Stringify(W.d, W.h) /\ V.u = W.u

\* A copy whose document is this document itself (no JSON round trip).
CopyByReference(V) == [Construct(V.h) EXCEPT !.d = V.d, !.h = V.h, !.u = V.u]

\* copy(): new Query(), whose document and endpoint are then replaced by the
\* JSON copy of this document and by this endpoint.
Copy(V) ==
    LET newQuery == Construct(V.h)
        parsed == JsonCopy(V)
    IN [newQuery EXCEPT !.d = parsed.d, !.h = parsed.h, !.u = V.u]

----------------------------------------------------------------------------
(* Filter expressions: leaves (Column methods) and And / Or *)

\* Values: a number, a string, undefined, a Column instance, an array.
Num(n) == [t |-> "num", n |-> n, s |-> ""]
Str(s) == [t |-> "str", n |-> 0, s |-> s]
Undefined == [t |-> "undef", n |-> 0, s |-> ""]
Null == [t |-> "null", n |-> 0, s |-> ""]
ColumnObj(name) == [t |-> "column", n |-> 0, s |-> name]
List(items) == [t |-> "list", n |-> 0, s |-> "", items |-> items]

\* An extractName that hands the Column on as it is.
ExtractNameDeferred(obj) == obj

\* Column.extractName
ExtractName(obj) == IF obj.t = "column" THEN Str(obj.s) ELSE obj

\* new Column(name).<method>(...)
Compare(name, operation, other) ==
    [left |-> name, operation |-> operation, right |-> ExtractName(other)]
Gt(name, other) == Compare(name, "greater", other)
\* A gte that builds the strict comparison.
GteStrict(name, other) == Compare(name, "greater", other)
Gte(name, other) == Compare(name, "egreater", other)
Lt(name, other) == Compare(name, "less", other)
Lte(name, other) == Compare(name, "eless", other)
Eq(name, other) == Compare(name, "equal", other)
Ne(name, other) == Compare(name, "nequal", other)
Crosses(name, other) == Compare(name, "crosses", other)
CrossesAbove(name, other) == Compare(name, "crosses_above", other)
CrossesBelow(name, other) == Compare(name, "crosses_below", other)
Like(name, other) == Compare(name, "match", other)
NotLike(name, other) == Compare(name, "nmatch", other)

Between(name, left, right) ==
    [left |-> name, operation |-> "in_range",
     right |-> List(<<ExtractName(left), ExtractName(right)>>)]
NotBetween(name, left, right) ==
    [left |-> name, operation |-> "not_in_range",
     right |-> List(<<ExtractName(left), ExtractName(right)>>)]

\* isin / notIn: right is [...values], a new array with the elements of values
Isin(name, values) == [left |-> name, operation |-> "in_range", right |-> List(values.items)]
NotIn(name, values) ==
    [left |-> name, operation |-> "not_in_range", right |-> List(values.items)]

\* has / hasNoneOf: right is values itself
Has(name, values) == [left |-> name, operation |-> "has", right |-> values]
HasNoneOf(name, values) == [left |-> name, operation |-> "has_none_of", right |-> values]

Empty(name) == [left |-> name, operation |-> "empty", right |-> Null]
NotEmpty(name) == [left |-> name, operation |-> "nempty", right |-> Null]

AbovePct(name, column, pct) ==
    [left |-> name, operation |-> "above%", right |-> List(<<ExtractName(column), pct>>)]
BelowPct(name, column, pct) ==
    [left |-> name, operation |-> "below%", right |-> List(<<ExtractName(column), pct>>)]

\* pct2 is optional: an omitted pct2 is undefined, and is an element of the
\* array all the same.
BetweenPct(name, column, pct1, pct2) ==
    [left |-> name, operation |-> "in_range%",
     right |-> List(<<ExtractName(column), pct1, pct2>>)]
NotBetweenPct(name, column, pct1, pct2) ==
    [left |-> name, operation |-> "not_in_range%",
     right |-> List(<<ExtractName(column), pct1, pct2>>)]

\* 'left' in expr
IsLeaf(expr) == "left" \in DOMAIN expr

\* An implAndOrChaining that wraps every argument, leaf or not.
ImplAndOrChainingWrapAll(expressions, operator) ==
    [operation |->
        [operator |-> operator,
         operands |-> [i \in 1..Len(expressions) |-> [expression |-> expressions[i]]]]]

\* implAndOrChaining: a leaf is wrapped, anything else is pushed as it is.
ImplAndOrChaining(expressions, operator) ==
    [operation |->
        [operator |-> operator,
         operands |-> [i \in 1..Len(expressions) |->
                         IF IsLeaf(expressions[i])
                         THEN [expression |-> expressions[i]]
                         ELSE expressions[i]]]]

And(expressions) == ImplAndOrChaining(expressions, "and")

Or(expressions) == ImplAndOrChaining(expressions, "or")

----------------------------------------------------------------------------
(* Query: getScannerDataRaw and getScannerData *)

\* A response body {totalCount, data?}; a row of it is {s, d}.
Row(sym, d) == [s |-> sym, d |-> d]
Response(totalCount, hasData, data) ==
    [totalCount |-> totalCount, hasData |-> hasData, data |-> data]
NoResponse == Response(0, FALSE, <<>>)

\* What the awaited axios.post(...) does: it returns a response, or it throws
\* a value.  The catch block tells three kinds of thrown value apart: an
\* Error that carries a response object (with its status), any other Error,
\* and a value that is no Error (the client rejecting with the response
\* object itself, which then carries the status).
Thrown(isError, hasResponse, status, message) ==
    [isError |-> isError, hasResponse |-> hasResponse, status |-> status,
     message |-> message]
NoThrown == Thrown(FALSE, FALSE, "", <<>>)
Returned(response) == [ok |-> TRUE, response |-> response, thrown |-> NoThrown]
Threw(thrown) == [ok |-> FALSE, response |-> NoResponse, thrown |-> thrown]

\* A settled promise.
NoResult == [totalCount |-> 0, data |-> <<>>]
Fulfilled(raw, result) ==
    [state |-> "fulfilled", raw |-> raw, result |-> result, reason |-> NoThrown]
Rejected(reason) ==
    [state |-> "rejected", raw |-> NoResponse, result |-> NoResult, reason |-> reason]

\* new Error(`HTTP ${status}: ${statusText}\nBody: ${JSON.stringify(data)}`)
HttpError(thrown) ==
    Thrown(TRUE, FALSE, "", <<"HTTP ", thrown.status, ": ", "statusText", "\nBody: ", "data">>)

\* A getScannerDataRaw whose catch block swallows the failure and returns an
\* empty response.
GetScannerDataRawRecovering(outcome) ==
    IF outcome.ok THEN Fulfilled(outcome.response, NoResult)
    ELSE Fulfilled(NoResponse, NoResult)

\* getScannerDataRaw from the await on: return response.data, or the catch
\* block.
GetScannerDataRaw(outcome) ==
    IF outcome.ok THEN Fulfilled(outcome.response, NoResult)
    ELSE IF outcome.thrown.isError /\ outcome.thrown.hasResponse
         THEN Rejected(HttpError(outcome.thrown))
         ELSE Rejected(outcome.thrown)

\* A row.d[index] that reads one position further.
AtNext(d, index) == IF index + 1 <= Len(d) THEN d[index + 1] ELSE Undefined

\* row.d[index], index counted from 1 here
At(d, index) == IF index <= Len(d) THEN d[index] ELSE Undefined

\* columns.forEach((column, index) => { result[column] = row.d[index]; })
RECURSIVE ForEachColumn(_, _, _, _)
ForEachColumn(result, columns, row, index) ==
    IF index > Len(columns) THEN result
    ELSE ForEachColumn((columns[index] :> At(row.d, index)) @@ result,
                       columns, row, index + 1)

\* The record of one row: { ticker: row.s }, then the columns.
StructuredRow(columns, row) == ForEachColumn(("ticker" :> Str(row.s)), columns, row, 1)

\* A getScannerData that maps the rows without the null check: data.map on a
\* missing data throws a TypeError.
GetScannerDataUnguarded(d, outcome) ==
    LET jsonObj == GetScannerDataRaw(outcome)
        columns == IF Falsy(d, "columns") THEN <<>> ELSE d.columns
    IN IF jsonObj.state = "rejected" THEN jsonObj
       ELSE IF ~jsonObj.raw.hasData
            THEN Rejected(Thrown(TRUE, FALSE, "", <<"TypeError">>))
            ELSE Fulfilled(jsonObj.raw,
                           [totalCount |-> jsonObj.raw.totalCount,
                            data |-> [i \in 1..Len(jsonObj.raw.data) |->
                                        StructuredRow(columns, jsonObj.raw.data[i])]])

\* getScannerData from the await on, on the document d as it is then.
GetScannerData(d, outcome) ==
    LET jsonObj == GetScannerDataRaw(outcome)
        columns == IF Falsy(d, "columns") THEN <<>> ELSE d.columns
    IN IF jsonObj.state = "rejected" THEN jsonObj
       ELSE IF ~jsonObj.raw.hasData
            THEN Fulfilled(jsonObj.raw,
                           [totalCount |-> jsonObj.raw.totalCount, data |-> <<>>])
            ELSE Fulfilled(jsonObj.raw,
                           [totalCount |-> jsonObj.raw.totalCount,
                            data |-> [i \in 1..Len(jsonObj.raw.data) |->
                                        StructuredRow(columns, jsonObj.raw.data[i])]])

----------------------------------------------------------------------------
(* The arguments the caller draws from *)

Crypto == <<"crypto">>
Dollar == <<"$", "&">>
MarketLists == {<<>>, <<Crypto>>, <<Dollar>>, <<America, Crypto>>}

ColumnLists == {<<Name("close")>>, <<Col("volume"), Name("close")>>}

LeafA == Gt("close", Num(100))
LeafB == Eq("type", Str("stock"))
LeafC == Gt("volume", Str("VWAP"))
Leaves == {LeafA, LeafB, LeafC}
FilterLists == {<<LeafA>>, <<LeafB, LeafC>>}

Composites == {Or(<<And(<<LeafA, LeafB>>), LeafC>>)}

SortArgs == {[column |-> Name("close"), ascending |-> "omitted", nullsFirst |-> "omitted"],
             [column |-> Col("volume"), ascending |-> "false", nullsFirst |-> "true"]}

Numbers == {5, 10}
CallerArray == <<7, 20>>

TickerLists == {<<"NASDAQ:TSLA">>}
IndexLists == {<<"SYML:SP;SPX">>}

\* Column lists for the executions: plain, one named like the identifier
\* field, one with a repeated name, and the empty list.
ExecColumnLists == {<<Name("close"), Name("volume")>>, <<Name("ticker")>>,
                    <<Name("close"), Name("close")>>, <<>>}

\* Responses: any count, data missing, empty or with rows (a row may be
\* shorter than the columns list).
RowX == Row("NASDAQ:AAPL", <<Num(1), Num(2)>>)
RowY == Row("AMEX:SPY", <<Num(3)>>)
Responses ==
    {Response(n, FALSE, <<>>) : n \in {0, 7}}
    \cup {Response(n, TRUE, rows) :
            n \in {0, 7}, rows \in {<<>>, <<RowX>>, <<RowX, RowY>>, <<RowY, RowX>>}}

\* Thrown values: an HTTP error carrying its response, a network error, and
\* a rejection with the response object itself.
ThrownValues == {Thrown(TRUE, TRUE, "400", <<"Request failed">>),
                 Thrown(TRUE, FALSE, "", <<"Network Error">>),
                 Thrown(FALSE, FALSE, "500", <<>>)}

----------------------------------------------------------------------------
(* The calls, as the caller makes them *)

Call(op, b, n, xs) == [op |-> op, b |-> b, n |-> n, xs |-> xs]
NoCall == Call("none", "q", 0, <<>>)

\* No composite built yet, no execution started.
NoComp == [operation |-> NoTree]
NoMade == [operator |-> "none", expressions |-> <<>>]
InitExpr == comp = NoComp /\ made = NoMade

Pending == [state |-> "pending", raw |-> NoResponse, result |-> NoResult, reason |-> NoThrown]
Idle(runs) ==
    [pc |-> "idle", raw |-> FALSE, runs |-> runs, posts |-> 0, sent |-> <<>>,
     outcome |-> Returned(NoResponse), promise |-> Pending]
InitExec == exec = [b \in Builders |-> Idle(0)]

Relation(earlier, later) ==
    IF earlier.b # later.b THEN "other"
    ELSE IF earlier.op = later.op /\ earlier # later THEN "same"
    ELSE IF {earlier.op, later.op} = {"limit", "offset"} THEN "dual"
    ELSE IF /\ earlier.op = "setMarkets" /\ Len(earlier.xs) = 1
            /\ later.op \in {"setTickers", "setIndex"} THEN "scoped"
    ELSE "other"

Me(b) == View(doc[b], url[b], heap)

\* The initial state: q = new Query().
InitBuilder ==
    LET V == Construct([i \in Refs |-> IF i = DefaultRangeRef
                                       THEN RangeCell(DefaultRangeValue) ELSE FreeCell])
        d == [b \in Builders |-> IF b = "q" THEN V.d ELSE EmptyDoc]
        R == RootSeq(d, NoRef)
    IN /\ live = {"q"}
       /\ doc = [b \in Builders |-> CanonDoc(R, d[b])]
       /\ url = [b \in Builders |-> IF b = "q" THEN V.u ELSE <<>>]
       /\ heap = CanonHeap(R, V.h)
       /\ held = NoRef
       /\ calls = 0
       /\ last = NoCall
       /\ rel = "other"

Init == InitBuilder /\ InitExpr /\ InitExec

\* One call on builder b that leaves it as the view V, the caller then
\* holding the array hl.
Step(b, V, hl, call) ==
    /\ calls < MaxCalls
    /\ LET d == [doc EXCEPT ![b] = V.d]
           R == RootSeq(d, hl)
       IN /\ doc' = [x \in Builders |-> CanonDoc(R, d[x])]
          /\ heap' = CanonHeap(R, V.h)
          /\ held' = Rename(R, hl)
    /\ url' = [url EXCEPT ![b] = V.u]
    /\ live' = live \cup {b}
    /\ calls' = calls + 1
    /\ last' = call
    /\ rel' = Relation(last, call)
    /\ UNCHANGED <<comp, made, exec>>

DoSelect ==
    \E b \in live, columns \in ColumnLists :
        Step(b, Select(Me(b), columns), held, Call("select", b, 0, columns))

DoWhere ==
    \E b \in live, expressions \in FilterLists :
        Step(b, Where(Me(b), expressions), held, Call("where", b, 0, expressions))

DoWhere2 ==
    \E b \in live, operation \in Composites :
        Step(b, Where2(Me(b), operation), held, Call("where2", b, 0, <<operation>>))

DoOrderBy ==
    \E b \in live, a \in SortArgs :
        Step(b, OrderBy(Me(b), a.column, a.ascending, a.nullsFirst), held,
             Call("orderBy", b, 0, <<a>>))

DoLimit ==
    \E b \in live, n \in Numbers :
        Step(b, Limit(Me(b), n), held, Call("limit", b, n, <<>>))

DoOffset ==
    \E b \in live, n \in Numbers :
        Step(b, Offset(Me(b), n), held, Call("offset", b, n, <<>>))

DoSetMarkets ==
    \E b \in live, markets \in MarketLists :
        Step(b, SetMarkets(Me(b), markets), held, Call("setMarkets", b, 0, markets))

DoSetTickers ==
    \E b \in live, tickers \in TickerLists :
        Step(b, SetTickers(Me(b), tickers), held, Call("setTickers", b, 0, tickers))

DoSetIndex ==
    \E b \in live, indexes \in IndexLists :
        Step(b, SetIndex(Me(b), indexes), held, Call("setIndex", b, 0, indexes))

\* b.setProperty('markets', ['crypto'])
DoSetPropertyMarkets ==
    \E b \in live :
        Step(b, SetPropertyMarkets(Me(b), <<Crypto>>), held,
             Call("setProperty", b, 0, <<"markets">>))

\* b.setProperty('range', undefined)
DoSetPropertyUndefined ==
    \E b \in live :
        Step(b, SetPropertyRangeUndefined(Me(b)), held,
             Call("setProperty", b, 0, <<"range">>))

\* const r = [7, 20]; b.setProperty('range', r): the caller keeps r.
DoSetPropertyNewArray ==
    \E b \in live :
        Step(b, SetPropertyRange([Me(b) EXCEPT !.h[FreshHeld] = RangeCell(CallerArray)],
                                 FreshHeld),
             FreshHeld, Call("setProperty", b, 0, <<"range">>))

\* b.setProperty('range', r), with the array r the caller kept.
DoSetPropertyHeldArray ==
    \E b \in live :
        /\ held # NoRef
        /\ Step(b, SetPropertyRange(Me(b), held), held,
                Call("setProperty", b, 0, <<"range">>))

\* c = q.copy()
DoCopy == Step("c", Copy(Me("q")), held, Call("copy", "q", 0, <<>>))

Next ==
    \/ DoSelect
    \/ DoWhere
    \/ DoWhere2
    \/ DoOrderBy
    \/ DoLimit
    \/ DoOffset
    \/ DoSetMarkets
    \/ DoSetTickers
    \/ DoSetIndex
    \/ DoSetPropertyMarkets
    \/ DoSetPropertyUndefined
    \/ DoSetPropertyNewArray
    \/ DoSetPropertyHeldArray
    \/ DoCopy

Spec == Init /\ [][Next]_vars

----------------------------------------------------------------------------
(* What the public getters show *)

\* getUrl()
GetUrl(b) == url[b]

\* getQuery(), as a value: the document with its range and symbols written out.
GetQuery(b) ==
    [order |-> doc[b].order, st |-> doc[b].st, markets |-> doc[b].markets,
     columns |-> doc[b].columns, filter |-> doc[b].filter, filter2 |-> doc[b].filter2,
     sort |-> doc[b].sort,
     range |-> IF doc[b].st["range"] = "set" THEN heap[doc[b].range].v ELSE <<>>,
     symbols |-> IF doc[b].st["symbols"] = "set" THEN heap[doc[b].symbols] ELSE FreeCell]

Other(b) == IF b = "q" THEN "c" ELSE "q"

\* The endpoints as the specification names them.
MarketUrl(m) == <<Origin>> \o m \o <<"/scan">>
GlobalUrl == <<Origin, "global", "/scan">>

----------------------------------------------------------------------------
(* Claims about the configuration calls (specification Spec) *)

\* C1: after setMarkets(m1..mk) the endpoint is the endpoint of m1 when k = 1
\* and the global endpoint when k = 0 or k >= 2, and the document's markets
\* list is exactly [m1..mk].
C1_SetMarketsEndpoint ==
    last.op = "setMarkets" =>
        /\ Len(last.xs) = 1 => GetUrl(last.b) = MarketUrl(last.xs[1])
        /\ Len(last.xs) # 1 => GetUrl(last.b) = GlobalUrl
        /\ doc[last.b].st["markets"] = "set"
        /\ GetQuery(last.b).markets = last.xs

\* C1 holds for the market names without a "$": setMarkets was called with
\* such names (one reachable case: setMarkets('crypto')).
HasDollar(ms) == \E i \in 1..Len(ms) : "$" \in RangeSet(ms[i])
C1_PlainNames == (last.op = "setMarkets" /\ ~HasDollar(last.xs)) => C1_SetMarketsEndpoint
C1_Reached == last.op = "setMarkets" /\ last.xs = <<Crypto>> /\ GetUrl(last.b) = MarketUrl(Crypto)

SharesCallerArray ==
    /\ held # NoRef
    /\ \A b \in Builders : doc[b].st["range"] = "set" /\ doc[b].range = held

RangeOf(b) == GetQuery(b).range
C3_LimitOffset ==
    [][\A b \in Builders :
          last'.b = b =>
            /\ (last.op = "limit" /\ last'.op = "offset" /\ last.b = b)
                  => RangeOf(b)' = <<last'.n, last.n>>
            /\ (last.op = "offset" /\ last'.op = "limit" /\ last.b = b)
                  => RangeOf(b)' = <<last.n, last'.n>>
            /\ (last'.op = "limit" /\ doc[b].st["range"] = "set")
                  => RangeOf(b)'[1] = RangeOf(b)[1]
            /\ (last'.op = "offset" /\ doc[b].st["range"] = "set")
                  => RangeOf(b)'[2] = RangeOf(b)[2]]_vars

\* offset(m) was called right after limit(n), with m # n.
C3_Reached ==
    /\ last.op = "offset" /\ rel = "dual"
    /\ RangeOf(last.b)[1] = last.n
    /\ RangeOf(last.b)[2] \in Numbers \ {last.n}

\* C6: select, where and orderBy replace: after the call the field is what
\* the arguments of that call alone give, whatever the field held before.
SortOf(a) ==
    [sortBy |-> IF a.column.column THEN a.column.name ELSE a.column.str,
     sortOrder |-> IF a.ascending \in {"true", "omitted"} THEN "asc" ELSE "desc",
     nullsFirst |-> IF a.nullsFirst = "true" THEN "true" ELSE "false"]
C6_Replacing ==
    /\ last.op = "select" =>
          /\ Len(GetQuery(last.b).columns) = Len(last.xs)
          /\ \A i \in 1..Len(last.xs) :
                GetQuery(last.b).columns[i] =
                    IF last.xs[i].column THEN last.xs[i].name ELSE last.xs[i].str
    /\ last.op = "where" => GetQuery(last.b).filter = last.xs
    /\ last.op = "orderBy" => GetQuery(last.b).sort = SortOf(last.xs[1])

\* select was called twice in a row on a builder, with different arguments.
C6_Reached == last.op = "select" /\ rel = "same" /\ Len(last.xs) = 1

\* C10 (as stated): in every reachable state the endpoint of a builder is
\* the endpoint of m when its markets list is [m], and the global endpoint
\* when the list has no or several elements.
C10_EndpointFollowsMarkets ==
    \A b \in live :
        /\ Len(GetQuery(b).markets) = 1 => GetUrl(b) = MarketUrl(GetQuery(b).markets[1])
        /\ Len(GetQuery(b).markets) # 1 => GetUrl(b) = GlobalUrl

\* C11: after setTickers(t1..tk) or setIndex(i1..ik), whatever the builder
\* held before, markets is the empty list and the endpoint is the global one;
\* setTickers leaves symbols.tickers = [t1..tk], setIndex leaves
\* symbols.symbolset = [i1..ik] and the preset set.
C11_SymbolScope ==
    /\ last.op \in {"setTickers", "setIndex"} =>
          /\ doc[last.b].st["markets"] = "set"
          /\ GetQuery(last.b).markets = <<>>
          /\ GetUrl(last.b) = GlobalUrl
          /\ doc[last.b].st["symbols"] = "set"
    /\ last.op = "setTickers" => GetQuery(last.b).symbols.tickers = Opt(TRUE, last.xs)
    /\ last.op = "setIndex" =>
          /\ GetQuery(last.b).symbols.symbolset = Opt(TRUE, last.xs)
          /\ doc[last.b].st["preset"] = "set"

\* setTickers was called on a builder that setMarkets had just scoped to one
\* market.
C11_Reached ==
    /\ last.op = "setTickers" /\ rel = "scoped"
    /\ GetUrl(last.b) = GlobalUrl
    /\ GetQuery(last.b).symbols.tickers = Opt(TRUE, <<"NASDAQ:TSLA">>)

----------------------------------------------------------------------------
(* Building composites and passing them to where2 (specification SpecFilter) *)

RECURSIVE Depth(_)
Depth(tree) ==
    IF tree.operands = <<>> THEN 1
    ELSE LET nested == {i \in 1..Len(tree.operands) : "operation" \in DOMAIN tree.operands[i]}
             deepest == CHOOSE i \in nested :
                            \A j \in nested : Depth(tree.operands[j].operation)
                                                 <= Depth(tree.operands[i].operation)
         IN IF nested = {} THEN 1 ELSE 1 + Depth(tree.operands[deepest].operation)

\* The expressions the caller can pass to And / Or: the leaves, and the
\* composite built last; a list names each of them at most once.
Expressions ==
    Leaves \cup (IF comp # NoComp /\ Depth(comp.operation) < MaxDepth THEN {comp} ELSE {})
ExpressionLists ==
    UNION {{e \in [1..k -> Expressions] : \A i, j \in 1..k : e[i] = e[j] => i = j} :
             k \in 0..MaxOperands}

BuildAnd ==
    /\ Falsy(doc["q"], "filter2")
    /\ \E expressions \in ExpressionLists :
          /\ comp' = And(expressions)
          /\ made' = [operator |-> "and", expressions |-> expressions]
    /\ UNCHANGED <<builderVars, exec>>

BuildOr ==
    /\ Falsy(doc["q"], "filter2")
    /\ \E expressions \in ExpressionLists :
          /\ comp' = Or(expressions)
          /\ made' = [operator |-> "or", expressions |-> expressions]
    /\ UNCHANGED <<builderVars, exec>>

\* q.where2(comp)
FilterWhere2 ==
    /\ comp # NoComp
    /\ Falsy(doc["q"], "filter2")
    /\ doc' = [doc EXCEPT !["q"] = Where2(Me("q"), comp).d]
    /\ last' = Call("where2", "q", 0, <<comp>>)
    /\ UNCHANGED <<live, url, heap, held, calls, rel, comp, made, exec>>

NextFilter == BuildAnd \/ BuildOr \/ FilterWhere2

SpecFilter == Init /\ [][NextFilter]_vars

----------------------------------------------------------------------------
(* Executions (specification SpecExec) *)

\* b.select(...) while no settled promise is being looked at
ExecSelect ==
    \E b \in live, columns \in ExecColumnLists :
        /\ exec[b].pc # "settled"
        /\ doc' = [doc EXCEPT ![b] = Select(Me(b), columns).d]
        /\ last' = Call("select", b, 0, columns)
        /\ UNCHANGED <<live, url, heap, held, calls, rel, comp, made, exec>>

\* b.setProperty('columns', undefined) while no settled promise is being
\* looked at
ExecUnsetColumns ==
    \E b \in live :
        /\ exec[b].pc # "settled"
        /\ doc' = [doc EXCEPT ![b] = SetPropertyColumnsUndefined(Me(b)).d]
        /\ last' = Call("setProperty", b, 0, <<"columns">>)
        /\ UNCHANGED <<live, url, heap, held, calls, rel, comp, made, exec>>

\* The columns of b's document, none when the field is missing.
ColumnsOf(b) == IF doc[b].st["columns"] = "set" THEN doc[b].columns ELSE <<>>

\* b.getScannerDataRaw() / b.getScannerData() up to the await: the range is
\* defaulted if it is missing, and the request is posted with the document
\* as it is then (sent: its columns).
ExecStart ==
    \E b \in live, raw \in BOOLEAN :
        /\ exec[b].pc = "idle"
        /\ exec[b].runs < MaxExecs
        /\ LET V == EnsureRange(Me(b))
               d == [doc EXCEPT ![b] = V.d]
               R == RootSeq(d, held)
           IN /\ doc' = [x \in Builders |-> CanonDoc(R, d[x])]
              /\ heap' = CanonHeap(R, V.h)
              /\ held' = Rename(R, held)
        /\ exec' = [exec EXCEPT ![b] = [@ EXCEPT !.pc = "waiting", !.raw = raw,
                                                 !.runs = @ + 1, !.posts = @ + 1,
                                                 !.sent = ColumnsOf(b)]]
        /\ UNCHANGED <<live, url, calls, last, rel, comp, made>>

\* A call of b that settles with the columns of the other builder.
SettledFromOther(b, outcome) ==
    [exec[b] EXCEPT !.pc = "settled", !.outcome = outcome,
                    !.promise = IF exec[b].raw THEN GetScannerDataRaw(outcome)
                                ELSE GetScannerData(doc[IF b = "q" THEN "c" ELSE "q"],
                                                    outcome)]

\* The call of b once the awaited post has returned or thrown: the rest of
\* getScannerDataRaw, and of getScannerData on b's document as it is then.
Settled(b, outcome) ==
    [exec[b] EXCEPT !.pc = "settled", !.outcome = outcome,
                    !.promise = IF exec[b].raw THEN GetScannerDataRaw(outcome)
                                ELSE GetScannerData(doc[b], outcome)]

Settle(b, outcome) ==
    /\ exec[b].pc = "waiting"
    /\ exec' = [exec EXCEPT ![b] = Settled(b, outcome)]
    /\ UNCHANGED <<builderVars, comp, made>>

\* The transport returns a response.
ExecReturn == \E b \in live, response \in Responses : Settle(b, Returned(response))

\* The transport throws.
ExecThrow == \E b \in live, thrown \in ThrownValues : Settle(b, Threw(thrown))

\* The caller has taken the result.
ExecDone ==
    \E b \in live :
        /\ exec[b].pc = "settled"
        /\ exec' = [exec EXCEPT ![b] = Idle(exec[b].runs)]
        /\ UNCHANGED <<builderVars, comp, made>>

NextExec == ExecSelect \/ ExecUnsetColumns \/ ExecStart \/ ExecReturn \/ ExecThrow \/ ExecDone

SpecExec == Init /\ [][NextExec]_vars

----------------------------------------------------------------------------
(* Claims about the executions (specification SpecExec) *)

\* A getScannerData call of b has settled after the transport returned a
\* response.
Answered(b) == exec[b].pc = "settled" /\ ~exec[b].raw /\ exec[b].outcome.ok
RowsOf(b) == exec[b].outcome.response.data

\* C4 (as stated): for columns [c1..ck] and a response with the rows r1..rn,
\* getScannerData resolves with n records in the rows' order, record i with
\* ticker = ri.s and field cj = ri.d[j] for every j, and with the response's
\* totalCount.
C4_RowsRemapped ==
    \A b \in live :
        (Answered(b) /\ exec[b].outcome.response.hasData) =>
            /\ exec[b].promise.state = "fulfilled"
            /\ exec[b].promise.result.totalCount = exec[b].outcome.response.totalCount
            /\ Len(exec[b].promise.result.data) = Len(RowsOf(b))
            /\ \A i \in 1..Len(RowsOf(b)) :
                  /\ exec[b].promise.result.data[i]["ticker"] = Str(RowsOf(b)[i].s)
                  /\ \A j \in 1..Len(ColumnsOf(b)) :
                        exec[b].promise.result.data[i][ColumnsOf(b)[j]]
                            = (IF j <= Len(RowsOf(b)[i].d) THEN RowsOf(b)[i].d[j]
                               ELSE Undefined)

\* C4 (amended): the same, with ticker = ri.s when no column is named
\* 'ticker', and field cj = ri.d[j] for every j whose name does not come again
\* later in the columns list; the record has no other fields.
C4_RowsRemappedByLastName ==
    \A b \in live :
        (Answered(b) /\ exec[b].outcome.response.hasData) =>
            /\ exec[b].promise.state = "fulfilled"
            /\ exec[b].promise.result.totalCount = exec[b].outcome.response.totalCount
            /\ Len(exec[b].promise.result.data) = Len(RowsOf(b))
            /\ \A i \in 1..Len(RowsOf(b)) :
                  /\ DOMAIN exec[b].promise.result.data[i]
                        = {"ticker"} \cup RangeSet(ColumnsOf(b))
                  /\ "ticker" \notin RangeSet(ColumnsOf(b))
                        => exec[b].promise.result.data[i]["ticker"] = Str(RowsOf(b)[i].s)
                  /\ \A j \in 1..Len(ColumnsOf(b)) :
                        (\A k \in (j + 1)..Len(ColumnsOf(b)) : ColumnsOf(b)[k] # ColumnsOf(b)[j])
                           => exec[b].promise.result.data[i][ColumnsOf(b)[j]]
                                 = (IF j <= Len(RowsOf(b)[i].d) THEN RowsOf(b)[i].d[j]
                                    ELSE Undefined)

\* getScannerData resolved two rows for the columns close and volume, in the
\* order of the response.
C4_Reached ==
    /\ Answered("q")
    /\ ColumnsOf("q") = <<"close", "volume">>
    /\ RowsOf("q") = <<RowY, RowX>>
    /\ exec["q"].promise.state = "fulfilled"
    /\ exec["q"].promise.result.data[1]["ticker"] = Str("AMEX:SPY")
    /\ exec["q"].promise.result.data[2]["volume"] = Num(2)

\* C7: when the response has no data array or an empty one, getScannerData
\* resolves with the response's totalCount and no records, whatever the
\* totalCount and the columns.
C7_EmptyData ==
    \A b \in live :
        (Answered(b) /\ (~exec[b].outcome.response.hasData \/ RowsOf(b) = <<>>)) =>
            /\ exec[b].promise.state = "fulfilled"
            /\ exec[b].promise.result
                  = [totalCount |-> exec[b].outcome.response.totalCount, data |-> <<>>]

\* getScannerData resolved a response that had a totalCount of 7 and no data
\* array, for a builder with columns.
C7_Reached ==
    /\ Answered("q")
    /\ ~exec["q"].outcome.response.hasData
    /\ exec["q"].outcome.response.totalCount = 7
    /\ ColumnsOf("q") # <<>>
    /\ exec["q"].promise.state = "fulfilled"
    /\ exec["q"].promise.result.data = <<>>

\* C8 (as stated): when the transport reports a response with a status that
\* is not 2xx, getScannerDataRaw and getScannerData reject with an error
\* whose message contains that status.
C8_RejectsWithStatus ==
    \A b \in live :
        (exec[b].pc = "settled" /\ ~exec[b].outcome.ok /\ exec[b].outcome.thrown.status # "") =>
            /\ exec[b].promise.state = "rejected"
            /\ exec[b].promise.reason.isError
            /\ exec[b].outcome.thrown.status \in RangeSet(exec[b].promise.reason.message)

----------------------------------------------------------------------------
(* Claims about the composites (specification SpecFilter) *)

RECURSIVE WellNested(_)
WellNested(tree) ==
    /\ tree.operator \in {"and", "or"}
    /\ \A i \in 1..Len(tree.operands) :
          \/ /\ DOMAIN tree.operands[i] = {"expression"}
             /\ tree.operands[i].expression \in Leaves
          \/ /\ DOMAIN tree.operands[i] = {"operation"}
             /\ WellNested(tree.operands[i].operation)

AndOfAB == [operator |-> "and", operands |-> <<[expression |-> LeafA], [expression |-> LeafB]>>]
OrOfAndC == [operator |-> "or", operands |-> <<[operation |-> AndOfAB], [expression |-> LeafC]>>]

RECURSIVE NoEmptyOperands(_)
NoEmptyOperands(tree) ==
    /\ tree.operands # <<>>
    /\ \A i \in 1..Len(tree.operands) :
          "operation" \in DOMAIN tree.operands[i]
             => NoEmptyOperands(tree.operands[i].operation)

\* C9 (as stated): And() and Or() without expressions give no composite, so
\* every composite made or stored in filter2 has at least one operand at
\* every node.
C9_NoEmptyComposite ==
    /\ made.operator # "none" => (made.expressions # <<>> /\ NoEmptyOperands(comp.operation))
    /\ doc["q"].st["filter2"] = "set" => NoEmptyOperands(GetQuery("q").filter2)

----------------------------------------------------------------------------
(* Two builders made with new Query() and configured apart (specification
   SpecPair) *)

\* Every way of calling orderBy on a string or a Column.
AllSortArgs ==
    {[column |-> c, ascending |-> a, nullsFirst |-> n] :
        c \in {Name("close"), Col("volume")},
        a \in {"omitted", "true", "false"}, n \in {"omitted", "true", "false"}}

\* A call on builder b that leaves it as the view V.
Commit(b, V, call) ==
    /\ LET d == [doc EXCEPT ![b] = V.d]
           R == RootSeq(d, held)
       IN /\ doc' = [x \in Builders |-> CanonDoc(R, d[x])]
          /\ heap' = CanonHeap(R, V.h)
          /\ held' = Rename(R, held)
    /\ url' = [url EXCEPT ![b] = V.u]
    /\ live' = live \cup {b}
    /\ last' = call
    /\ rel' = Relation(last, call)
    /\ UNCHANGED <<calls, comp, made, exec>>

\* c = new Query()
PairNew ==
    /\ "c" \notin live
    /\ Commit("c", Construct(heap), Call("new", "c", 0, <<>>))

PairWhere ==
    \E b \in live : Commit(b, Where(Me(b), <<LeafA>>), Call("where", b, 0, <<LeafA>>))

PairWhere2 ==
    \E b \in live, operation \in Composites :
        Commit(b, Where2(Me(b), operation), Call("where2", b, 0, <<operation>>))

PairOrderBy ==
    \E b \in live, a \in AllSortArgs :
        Commit(b, OrderBy(Me(b), a.column, a.ascending, a.nullsFirst),
               Call("orderBy", b, 0, <<a>>))

NextPair == PairNew \/ PairWhere \/ PairWhere2 \/ PairOrderBy

SpecPair == Init /\ [][NextPair]_vars

SameFields(a, b) ==
    /\ RangeSet(Stringify(doc[a], heap).keys) = RangeSet(Stringify(doc[b], heap).keys)
    /\ [Stringify(doc[a], heap) EXCEPT !.keys = <<>>]
          = [Stringify(doc[b], heap) EXCEPT !.keys = <<>>]

\* C14 (as stated): equals is true exactly when the two documents hold the
\* same value for every field and the endpoints are the same, in whatever
\* order the configuration calls were made.
C14_EqualsStructural ==
    \A a, b \in live :
        Equals(Me(a), Me(b)) <=> (SameFields(a, b) /\ GetUrl(a) = GetUrl(b))

----------------------------------------------------------------------------
(* Two builders made with new Query(), with calls in flight at the same time
   (specification SpecConc) *)

\* A call on builder b that leaves it as the view V.
Update(b, V) ==
    /\ LET d == [doc EXCEPT ![b] = V.d]
           R == RootSeq(d, held)
       IN /\ doc' = [x \in Builders |-> CanonDoc(R, d[x])]
          /\ heap' = CanonHeap(R, V.h)
          /\ held' = Rename(R, held)
    /\ url' = [url EXCEPT ![b] = V.u]
    /\ live' = live \cup {b}
    /\ UNCHANGED <<calls, last, rel, comp, made, exec>>

\* c = new Query()
ConcNew == "c" \notin live /\ Update("c", Construct(heap))

\* b.select('close') while no settled promise is being looked at
ConcSelect ==
    \E b \in live :
        /\ exec[b].pc # "settled"
        /\ Update(b, Select(Me(b), <<Name("close")>>))

\* b.limit(5) / b.offset(5)
ConcLimitOn(b) == exec[b].pc # "settled" /\ Update(b, Limit(Me(b), 5))
ConcOffsetOn(b) == exec[b].pc # "settled" /\ Update(b, Offset(Me(b), 5))

ConcLimit == \E b \in live : ConcLimitOn(b)

ConcOffset == \E b \in live : ConcOffsetOn(b)

\* b.setProperty('range', undefined)
ConcUnsetRange ==
    \E b \in live :
        /\ exec[b].pc = "idle"
        /\ doc[b].st["range"] = "set"
        /\ Update(b, SetPropertyRangeUndefined(Me(b)))

ConcResponses == {Response(7, FALSE, <<>>), Response(7, TRUE, <<RowX>>)}

ConcReturn == \E b \in live, response \in ConcResponses : Settle(b, Returned(response))

ConcThrow == \E b \in live : Settle(b, Threw(Thrown(TRUE, TRUE, "400", <<"Request failed">>)))

NextConc ==
    \/ ConcNew
    \/ ConcSelect
    \/ ConcLimit
    \/ ConcOffset
    \/ ConcUnsetRange
    \/ ExecStart
    \/ ConcReturn
    \/ ConcThrow
    \/ ExecDone

SpecConc == Init /\ [][NextConc]_vars

\* C13: DEFAULT_RANGE stays [0, 50] whatever limit, offset, getScannerDataRaw
\* and getScannerData calls are made on the builders, and a limit or offset
\* call on one builder leaves the range of the other, made with new Query(),
\* as it was.
C13_DefaultRangeKept ==
    /\ [](heap[DefaultRangeRef] = RangeCell(<<0, 50>>))
    /\ [][\A b \in Builders :
             ((ConcLimitOn(b) \/ ConcOffsetOn(b)) /\ live = Builders)
                => /\ RangeOf(Other(b))' = RangeOf(Other(b))
                   /\ doc'[Other(b)].st["range"] = doc[Other(b)].st["range"]]_vars

\* q was limited to 5 and has run a call; c, made with new Query(), still
\* has the default range.
C13_Reached ==
    /\ live = Builders
    /\ RangeOf("q") = <<0, 5>> /\ exec["q"].runs > 0
    /\ RangeOf("c") = <<0, 50>>
    /\ heap[DefaultRangeRef].v = <<0, 50>>

\* C15 (as stated): a getScannerDataRaw or getScannerData call, from its
\* start to its settling, leaves the builder's document and endpoint as they
\* were.
C15_ExecutionReadOnly ==
    [][\A b \in Builders :
          exec'[b] # exec[b] => (GetQuery(b)' = GetQuery(b) /\ GetUrl(b)' = GetUrl(b))]_vars

C17_CallsApart ==
    /\ [](\A b \in live :
            /\ (exec[b].pc = "settled" /\ exec[b].raw /\ exec[b].outcome.ok)
                  => exec[b].promise.raw = exec[b].outcome.response
            /\ (Answered(b) /\ exec[b].outcome.response.hasData)
                  => /\ exec[b].promise.state = "fulfilled"
                     /\ Len(exec[b].promise.result.data) = Len(RowsOf(b))
                     /\ \A i \in 1..Len(RowsOf(b)) :
                           /\ DOMAIN exec[b].promise.result.data[i]
                                 = {"ticker"} \cup RangeSet(ColumnsOf(b))
                           /\ \A j \in 1..Len(ColumnsOf(b)) :
                                 exec[b].promise.result.data[i][ColumnsOf(b)[j]]
                                    = (IF j <= Len(RowsOf(b)[i].d) THEN RowsOf(b)[i].d[j]
                                       ELSE Undefined))
    /\ [][\A b \in Builders :
             exec'[b] # exec[b]
                => /\ GetQuery(Other(b))' = GetQuery(Other(b))
                   /\ GetUrl(Other(b))' = GetUrl(Other(b))
                   /\ exec'[Other(b)] = exec[Other(b)]]_vars

\* q's getScannerData has settled with a row while c's call is still in
\* flight, the two builders having different columns.
C17_Reached ==
    /\ live = Builders
    /\ Answered("q") /\ exec["q"].outcome.response.hasData
    /\ exec["c"].pc = "waiting"
    /\ ColumnsOf("q") = <<"close">> /\ ColumnsOf("c") = DefaultColumns
    /\ exec["q"].promise.result.data[1] = ("ticker" :> Str("NASDAQ:AAPL")) @@ ("close" :> Num(1))

----------------------------------------------------------------------------
(* Column methods applied to drawn operands (specification SpecColumn) *)

Receiver == "test_field"

\* An optional parameter the caller left out is undefined in the method.
Arg(args, i) == IF i <= Len(args) THEN args[i] ELSE Undefined

\* new Column(Receiver)[method](...args)
Invoke(method, args) ==
    CASE method = "gt" -> Gt(Receiver, args[1])
      [] method = "gte" -> Gte(Receiver, args[1])
      [] method = "lt" -> Lt(Receiver, args[1])
      [] method = "lte" -> Lte(Receiver, args[1])
      [] method = "eq" -> Eq(Receiver, args[1])
      [] method = "ne" -> Ne(Receiver, args[1])
      [] method = "crosses" -> Crosses(Receiver, args[1])
      [] method = "crossesAbove" -> CrossesAbove(Receiver, args[1])
      [] method = "crossesBelow" -> CrossesBelow(Receiver, args[1])
      [] method = "like" -> Like(Receiver, args[1])
      [] method = "notLike" -> NotLike(Receiver, args[1])
      [] method = "between" -> Between(Receiver, args[1], args[2])
      [] method = "notBetween" -> NotBetween(Receiver, args[1], args[2])
      [] method = "isin" -> Isin(Receiver, args[1])
      [] method = "notIn" -> NotIn(Receiver, args[1])
      [] method = "has" -> Has(Receiver, args[1])
      [] method = "hasNoneOf" -> HasNoneOf(Receiver, args[1])
      [] method = "abovePct" -> AbovePct(Receiver, args[1], args[2])
      [] method = "belowPct" -> BelowPct(Receiver, args[1], args[2])
      [] method = "betweenPct" -> BetweenPct(Receiver, args[1], args[2], Arg(args, 3))
      [] method = "notBetweenPct" -> NotBetweenPct(Receiver, args[1], args[2], Arg(args, 3))
      [] method = "empty" -> Empty(Receiver)
      [] method = "notEmpty" -> NotEmpty(Receiver)

CompareMethods == {"gt", "gte", "lt", "lte", "eq", "ne", "crosses", "crossesAbove",
                   "crossesBelow", "like", "notLike"}

\* Operands: a number, field names, and Column instances of the same names.
Operands == {Num(100), Str("other_field"), ColumnObj("other_field"),
             Str("VWAP"), ColumnObj("VWAP")}
References == {Str("VWAP"), ColumnObj("VWAP"), ColumnObj("EMA200")}
\* Ratios, in hundredths.
Ratios == {Num(110), Num(130)}
Scalars == {Str("common"), Str("preferred")}
ValueLists == {List(<<>>), List(<<Str("common")>>), List(<<Str("common"), Str("preferred")>>)}

ColumnCompare ==
    \E method \in CompareMethods, other \in Operands :
        /\ comp' = Invoke(method, <<other>>)
        /\ made' = [operator |-> method, expressions |-> <<other>>]
        /\ UNCHANGED <<builderVars, exec>>

ColumnBetween ==
    \E method \in {"between", "notBetween"}, left \in Operands, right \in Operands :
        /\ comp' = Invoke(method, <<left, right>>)
        /\ made' = [operator |-> method, expressions |-> <<left, right>>]
        /\ UNCHANGED <<builderVars, exec>>

ColumnIsin ==
    \E method \in {"isin", "notIn"}, values \in ValueLists :
        /\ comp' = Invoke(method, <<values>>)
        /\ made' = [operator |-> method, expressions |-> <<values>>]
        /\ UNCHANGED <<builderVars, exec>>

ColumnHas ==
    \E method \in {"has", "hasNoneOf"}, values \in Scalars \cup ValueLists :
        /\ comp' = Invoke(method, <<values>>)
        /\ made' = [operator |-> method, expressions |-> <<values>>]
        /\ UNCHANGED <<builderVars, exec>>

ColumnPct ==
    \E method \in {"abovePct", "belowPct"}, column \in References, pct \in Ratios :
        /\ comp' = Invoke(method, <<column, pct>>)
        /\ made' = [operator |-> method, expressions |-> <<column, pct>>]
        /\ UNCHANGED <<builderVars, exec>>

\* betweenPct / notBetweenPct with one ratio or with two
ColumnBetweenPct ==
    \E method \in {"betweenPct", "notBetweenPct"}, column \in References, pct1 \in Ratios,
       more \in {<<>>} \cup {<<pct2>> : pct2 \in Ratios} :
        /\ comp' = Invoke(method, <<column, pct1>> \o more)
        /\ made' = [operator |-> method, expressions |-> <<column, pct1>> \o more]
        /\ UNCHANGED <<builderVars, exec>>

ColumnEmpty ==
    \E method \in {"empty", "notEmpty"} :
        /\ comp' = Invoke(method, <<>>)
        /\ made' = [operator |-> method, expressions |-> <<>>]
        /\ UNCHANGED <<builderVars, exec>>

NextColumn ==
    \/ ColumnEmpty
    \/ ColumnCompare
    \/ ColumnBetween
    \/ ColumnIsin
    \/ ColumnHas
    \/ ColumnPct
    \/ ColumnBetweenPct

SpecColumn == Init /\ [][NextColumn]_vars

\* The operand with a Column replaced by the string of its name.
AsName(x) == IF x.t = "column" THEN Str(x.s) ELSE x
HandleTaking == CompareMethods \cup {"between", "notBetween", "abovePct", "belowPct",
                                     "betweenPct", "notBetweenPct"}

\* C18: for the methods that take an operand or a reference field, passing
\* new Column(n) gives the leaf that passing the string n gives: no Column is
\* left in the leaf.
C18_HandleResolved ==
    made.operator \in HandleTaking =>
        /\ comp = Invoke(made.operator,
                         [i \in 1..Len(made.expressions) |-> AsName(made.expressions[i])])
        /\ comp.right.t # "column"
        /\ comp.right.t = "list" =>
              \A i \in 1..Len(comp.right.items) : comp.right.items[i].t # "column"

\* gt(new Column('other_field')) was called.
C18_Reached ==
    /\ made = [operator |-> "gt", expressions |-> <<ColumnObj("other_field")>>]
    /\ comp = [left |-> Receiver, operation |-> "greater", right |-> Str("other_field")]

\* C19 (as stated): isin, notIn, has and hasNoneOf give a leaf whose right
\* operand is a list: the list passed, or [v] for a single value v.
C19_MembershipList ==
    made.operator \in {"isin", "notIn", "has", "hasNoneOf"} =>
        /\ comp.right.t = "list"
        /\ made.expressions[1].t = "list" => comp.right = made.expressions[1]
        /\ made.expressions[1].t # "list" => comp.right = List(<<made.expressions[1]>>)

\* C20 (as stated): the right operand of the percentage operators is the
\* reference field's name followed by the ratios passed, [ref, pct] or
\* [ref, pct1, pct2] or, with one ratio, [ref, pct1]; the operations are
\* 'above%', 'below%', 'in_range%', 'not_in_range%'.
C20_PctOperands ==
    made.operator \in {"abovePct", "belowPct", "betweenPct", "notBetweenPct"} =>
        /\ comp.left = Receiver
        /\ comp.operation = (CASE made.operator = "abovePct" -> "above%"
                               [] made.operator = "belowPct" -> "below%"
                               [] made.operator = "betweenPct" -> "in_range%"
                               [] made.operator = "notBetweenPct" -> "not_in_range%")
        /\ comp.right = List([i \in 1..Len(made.expressions) |->
                                IF i = 1 THEN Str(made.expressions[1].s)
                                ELSE made.expressions[i]])

\* The operation name the specification gives for a method.
OperationOf(method) ==
    CASE method = "gt" -> "greater" [] method = "gte" -> "egreater"
      [] method = "lt" -> "less" [] method = "lte" -> "eless"
      [] method = "eq" -> "equal" [] method = "ne" -> "nequal"
      [] method = "crosses" -> "crosses" [] method = "crossesAbove" -> "crosses_above"
      [] method = "crossesBelow" -> "crosses_below"
      [] method = "like" -> "match" [] method = "notLike" -> "nmatch"
      [] method \in {"between", "isin"} -> "in_range"
      [] method \in {"notBetween", "notIn"} -> "not_in_range"
      [] method = "empty" -> "empty" [] method = "notEmpty" -> "nempty"

\* C21: a comparison method of the Column named c gives the leaf
\* {left: c, operation: op, right: v} with the fixed operation names, v
\* being the operand (a Column operand by its name, the two bounds of
\* between as a pair, the values of isin as a list) and null for empty and
\* notEmpty; whatever leaves were built before, left is still c.
C21_LeafMapping ==
    made.operator \in CompareMethods \cup {"between", "notBetween", "isin", "notIn",
                                            "empty", "notEmpty"} =>
        /\ DOMAIN comp = {"left", "operation", "right"}
        /\ comp.left = Receiver
        /\ comp.operation = OperationOf(made.operator)
        /\ made.operator \in CompareMethods => comp.right = AsName(made.expressions[1])
        /\ made.operator \in {"between", "notBetween"} =>
              comp.right = List(<<AsName(made.expressions[1]), AsName(made.expressions[2])>>)
        /\ made.operator \in {"isin", "notIn"} => comp.right = made.expressions[1]
        /\ made.operator \in {"empty", "notEmpty"} => comp.right = Null

\* gte(100) was called.
C21_Reached ==
    /\ made = [operator |-> "gte", expressions |-> <<Num(100)>>]
    /\ comp = [left |-> Receiver, operation |-> "egreater", right |-> Num(100)]

\* C22: in every record getScannerData returns, ticker is the s of the row
\* the record was made from, whatever the columns list (a column named
\* 'ticker' and repeated names included).
C22_TickerIsSymbol ==
    \A b \in live :
        (Answered(b) /\ exec[b].outcome.response.hasData) =>
            /\ exec[b].promise.state = "fulfilled"
            /\ \A i \in 1..Len(RowsOf(b)) :
                  exec[b].promise.result.data[i]["ticker"] = Str(RowsOf(b)[i].s)

----------------------------------------------------------------------------
(* Chains of configuration calls on one builder (specification SpecChain) *)

NextChain ==
    \/ DoSelect
    \/ DoWhere
    \/ DoWhere2
    \/ DoOrderBy
    \/ DoLimit
    \/ DoOffset
    \/ DoSetMarkets
    \/ DoSetTickers
    \/ DoSetIndex

SpecChain == Init /\ [][NextChain]_vars

\* The document can be posted: columns is a list, sort has a sortBy and a
\* sortOrder of 'asc' or 'desc', range is a pair of two numbers.
Postable(b) ==
    /\ doc[b].st["columns"] = "set"
    /\ doc[b].columns \in Seq({doc[b].columns[i] : i \in DOMAIN doc[b].columns})
    /\ doc[b].st["sort"] = "set"
    /\ doc[b].sort.sortBy # ""
    /\ doc[b].sort.sortOrder \in {"asc", "desc"}
    /\ doc[b].st["range"] = "set"
    /\ heap[doc[b].range].kind = "range"
    /\ Len(heap[doc[b].range].v) = 2
    /\ \A i \in 1..2 : heap[doc[b].range].v[i] \in Int

\* C23: after every prefix of a chain of select, where, where2, orderBy,
\* limit, offset, setMarkets, setTickers and setIndex calls starting from
\* new Query(), the builder's document is postable.
C23_Postable == Postable("q")

\* offset(10), limit(5) and a descending orderBy were chained.
C23_Reached ==
    /\ calls = 3
    /\ last.op = "orderBy"
    /\ doc["q"].sort.sortOrder = "desc"
    /\ GetQuery("q").range = <<10, 5>>
    /\ Postable("q")

----------------------------------------------------------------------------
(* formatTechnicalRating (specification SpecRating) *)

\* Ratings are numbers in hundredths, from -MaxRating to MaxRating, and NaN.
MaxRating == 100
Rating(h) == [nan |-> FALSE, h |-> h]
NaN == [nan |-> TRUE, h |-> 0]
Ratings == {Rating(h) : h \in (0 - MaxRating)..MaxRating} \cup {NaN}

\* rating >= bound, the bound in hundredths: false when rating is NaN
GreaterEqual(rating, bound) == ~rating.nan /\ rating.h >= bound

\* rating < bound: false when rating is NaN
Less(rating, bound) == ~rating.nan /\ rating.h < bound

\* A formatTechnicalRating whose first band starts above 0.5.
FormatTechnicalRatingAbove(rating) ==
    IF GreaterEqual(rating, 51) THEN "Strong Buy"
    ELSE IF GreaterEqual(rating, 10) THEN "Buy"
    ELSE IF GreaterEqual(rating, 0 - 10) THEN "Neutral"
    ELSE IF GreaterEqual(rating, 0 - 50) THEN "Sell"
    ELSE "Strong Sell"

FormatTechnicalRating(rating) ==
    IF GreaterEqual(rating, 50) THEN "Strong Buy"
    ELSE IF GreaterEqual(rating, 10) THEN "Buy"
    ELSE IF GreaterEqual(rating, 0 - 10) THEN "Neutral"
    ELSE IF GreaterEqual(rating, 0 - 50) THEN "Sell"
    ELSE "Strong Sell"

NoRating == [operation |-> "none"]

\* A rating is at hand, not formatted yet.
InitRating ==
    /\ InitBuilder /\ InitExec
    /\ comp = NoRating
    /\ \E rating \in Ratings :
          made = [operator |-> "formatTechnicalRating", expressions |-> <<rating>>]

\* formatTechnicalRating(rating)
FormatRating ==
    /\ comp = NoRating
    /\ comp' = [operation |-> FormatTechnicalRating(made.expressions[1])]
    /\ UNCHANGED <<builderVars, made, exec>>

NextRating == FormatRating

SpecRating == InitRating /\ [][NextRating]_vars

\* The five bands as the specification writes them.
Bands == {"Strong Buy", "Buy", "Neutral", "Sell", "Strong Sell"}
InBand(rating, band) ==
    CASE band = "Strong Buy" -> GreaterEqual(rating, 50)
      [] band = "Buy" -> GreaterEqual(rating, 10) /\ Less(rating, 50)
      [] band = "Neutral" -> GreaterEqual(rating, 0 - 10) /\ Less(rating, 10)
      [] band = "Sell" -> GreaterEqual(rating, 0 - 50) /\ Less(rating, 0 - 10)
      [] band = "Strong Sell" -> Less(rating, 0 - 50)

\* C24 (as stated): every rating falls in exactly one of the five bands
\* (>= 0.5, [0.1, 0.5), [-0.1, 0.1), [-0.5, -0.1), < -0.5), and
\* formatTechnicalRating gives the name of that band.
C24_Bands ==
    comp # NoRating =>
        /\ \E band \in Bands :
              /\ InBand(made.expressions[1], band)
              /\ \A other \in Bands : InBand(made.expressions[1], other) => other = band
        /\ \A band \in Bands : InBand(made.expressions[1], band) => comp.operation = band

\* C24 (amended): every rating other than NaN falls in exactly one of the
\* five bands and formatTechnicalRating gives the name of that band; NaN
\* falls in no band and formatTechnicalRating gives 'Strong Sell' for it.
C24_BandsOrNaN ==
    comp # NoRating =>
        /\ comp.operation \in Bands
        /\ ~made.expressions[1].nan =>
              /\ \E band \in Bands :
                    /\ InBand(made.expressions[1], band)
                    /\ \A other \in Bands :
                          InBand(made.expressions[1], other) => other = band
              /\ \A band \in Bands :
                    InBand(made.expressions[1], band) => comp.operation = band
        /\ made.expressions[1].nan =>
              /\ \A band \in Bands : ~InBand(made.expressions[1], band)
              /\ comp.operation = "Strong Sell"

\* formatTechnicalRating(0.5) gave 'Strong Buy'.
C24_Reached ==
    /\ made.expressions[1] = Rating(50)
    /\ comp = [operation |-> "Strong Buy"]

\* C25: the records a getScannerData call returns are keyed by the columns
\* the builder held when the call's request was sent, also when select() is
\* called on the builder between the sending and the response.
C25_KeyedBySentColumns ==
    \A b \in live :
        (Answered(b) /\ exec[b].outcome.response.hasData) =>
            /\ exec[b].promise.state = "fulfilled"
            /\ \A i \in 1..Len(RowsOf(b)) :
                  DOMAIN exec[b].promise.result.data[i]
                      = {"ticker"} \cup RangeSet(exec[b].sent)

\* One field of b's document as a value: whether it is there, and what it
\* holds.
FieldOf(b, k) ==
    <<doc[b].st[k],
      CASE k = "markets" -> doc[b].markets
        [] k = "columns" -> doc[b].columns
        [] k = "filter" -> doc[b].filter
        [] k = "filter2" -> <<doc[b].filter2>>
        [] k = "sort" -> <<doc[b].sort>>
        [] k = "range" -> GetQuery(b).range
        [] k = "symbols" -> <<GetQuery(b).symbols>>
        [] OTHER -> <<>> >>

\* The field a configuration method is about.
OwnKey(op) ==
    CASE op = "select" -> "columns" [] op = "where" -> "filter"
      [] op = "where2" -> "filter2" [] op = "orderBy" -> "sort"
      [] op \in {"limit", "offset"} -> "range" [] op = "setMarkets" -> "markets"

----------------------------------------------------------------------------
(* Snapshots of the document (specification SpecSnap) *)

\* The caller keeps the document getQuery() returned; it is held in the slot
\* "c" of doc, which is no live builder in this specification.

\* A getQuery that copies the fields of the document, not what they refer to.
GetQueryShallow(V) == V

\* getQuery(): JSON.parse(JSON.stringify(this.query))
GetQueryParsed(V) == JsonCopy(V)

Snapshot == View(doc["c"], <<>>, heap)
Taken == doc["c"].order # <<>>

\* The caller now holds the snapshot V.
SnapStep(V, call) ==
    /\ calls < MaxCalls
    /\ LET d == [doc EXCEPT !["c"] = V.d]
           R == RootSeq(d, held)
       IN /\ doc' = [x \in Builders |-> CanonDoc(R, d[x])]
          /\ heap' = CanonHeap(R, V.h)
          /\ held' = Rename(R, held)
    /\ calls' = calls + 1
    /\ last' = call
    /\ rel' = Relation(last, call)
    /\ UNCHANGED <<live, url, comp, made, exec>>

\* snapshot = q.getQuery()
SnapGet ==
    /\ "q" \in live
    /\ SnapStep(GetQueryParsed(Me("q")), Call("getQuery", "q", 0, <<>>))

\* snapshot.range[i] = 99
SnapWriteRange ==
    \E i \in 1..2 :
        /\ Taken /\ doc["c"].st["range"] = "set"
        /\ SnapStep(SetRangeAt(Snapshot, i, 99), Call("edit", "c", i, <<"range">>))

\* snapshot.symbols.tickers = ['MINE']
SnapWriteTickers ==
    /\ Taken /\ doc["c"].st["symbols"] = "set"
    /\ SnapStep([Snapshot EXCEPT !.h[doc["c"].symbols].tickers = Opt(TRUE, <<"MINE">>)],
                Call("edit", "c", 0, <<"symbols">>))

\* snapshot.columns.push('mine')
SnapPushColumn ==
    /\ Taken /\ doc["c"].st["columns"] = "set" /\ "mine" \notin RangeSet(doc["c"].columns)
    /\ SnapStep([Snapshot EXCEPT !.d.columns = Append(@, "mine")],
                Call("edit", "c", 0, <<"columns">>))

\* snapshot.filter.pop()
SnapPopFilter ==
    /\ Taken /\ doc["c"].st["filter"] = "set" /\ doc["c"].filter # <<>>
    /\ SnapStep([Snapshot EXCEPT !.d.filter = SubSeq(@, 1, Len(@) - 1)],
                Call("edit", "c", 0, <<"filter">>))

\* snapshot.filter2.operands.pop()
SnapPopOperand ==
    /\ Taken /\ doc["c"].st["filter2"] = "set" /\ doc["c"].filter2.operands # <<>>
    /\ SnapStep([Snapshot EXCEPT !.d.filter2.operands = SubSeq(@, 1, Len(@) - 1)],
                Call("edit", "c", 0, <<"filter2">>))

NextSnap ==
    \/ SnapGet
    \/ SnapWriteRange
    \/ SnapWriteTickers
    \/ SnapPushColumn
    \/ SnapPopFilter
    \/ SnapPopOperand
    \/ DoSelect
    \/ DoWhere
    \/ DoWhere2
    \/ DoLimit
    \/ DoOffset
    \/ DoSetTickers

SpecSnap == Init /\ [][NextSnap]_vars

\* C27: getQuery() returns a deep snapshot: it holds what the document
\* holds; a change made to the snapshot (its columns, range, filter list,
\* filter tree or symbols) leaves the builder's document and endpoint as
\* they were, and a configuration call on the builder leaves a snapshot taken
\* before as it was.
C27_DeepSnapshot ==
    [][/\ last'.op = "getQuery" /\ calls' = calls + 1
            => Stringify(doc["c"], heap)' = Stringify(doc["q"], heap)'
       /\ last'.op = "edit" /\ calls' = calls + 1
            => GetQuery("q")' = GetQuery("q") /\ GetUrl("q")' = GetUrl("q")
       /\ (last'.b = "q" /\ last'.op # "getQuery" /\ calls' = calls + 1)
            => GetQuery("c")' = GetQuery("c")]_vars

\* limit(5) was called on the builder after the snapshot's range had been
\* written; the snapshot keeps its 99 and the builder got its 5.
C27_Reached ==
    /\ Taken
    /\ last.op = "limit" /\ last.n = 5
    /\ GetQuery("c").range[2] = 99
    /\ GetQuery("q").range[2] = 5

----------------------------------------------------------------------------
(* The request configuration (specification SpecHeaders) *)

\* HEADERS, two of its entries standing for all of them; an object is a
\* function from its keys to their values.
HEADERS == ("accept" :> "text/plain, */*; q=0.01") @@ ("user-agent" :> "Mozilla/5.0")
NoObject == [k \in {} |-> ""]

\* A RequestConfig: the headers key is absent, holds undefined or holds an
\* object; cookies is absent, a string or an object; timeout is absent or a
\* number.
RequestConfig(hk, headers, ck, cookies, timeout) ==
    [hk |-> hk, headers |-> headers, ck |-> ck, cookies |-> cookies, timeout |-> timeout]

\* Object.entries(cookies).map(([key, value]) => `${key}=${value}`).join('; '),
\* for an object of at most one entry
CookieString(cookies) ==
    IF cookies = NoObject THEN <<>>
    ELSE LET key == CHOOSE k \in DOMAIN cookies : TRUE IN <<key, "=", cookies[key]>>

\* getScannerDataRaw from the requestConfig literal to the post: the headers
\* handed to the transport, and HEADERS and the caller's headers object as
\* they are then.
RequestHeaders(defaults, config) ==
    LET spread == IF config.hk = "set" THEN config.headers ELSE NoObject
        merged == spread @@ defaults
        \* ...config comes after headers: a headers key of config, whatever it
        \* holds, replaces the merged object
        own == config.hk # "absent"
        hasCookies == \/ config.ck = "string" /\ config.cookies # ""
                      \/ config.ck = "object"
        cookie == IF config.ck = "string" THEN <<config.cookies>>
                  ELSE CookieString(config.cookies)
        written(h) == IF hasCookies THEN ("Cookie" :> cookie) @@ h ELSE h
    IN IF own /\ config.hk = "undef" /\ hasCookies
       THEN [operation |-> "threw", headers |-> NoObject, timeout |-> 0,
             defaults |-> defaults, caller |-> config.headers]
       ELSE [operation |-> "posted",
             headers |-> IF ~own THEN written(merged)
                         ELSE IF config.hk = "undef" THEN NoObject
                         ELSE written(config.headers),
             timeout |-> IF config.timeout.has THEN config.timeout.n ELSE 20000,
             defaults |-> defaults,
             caller |-> IF config.hk = "set" THEN written(config.headers)
                        ELSE config.headers]

HeaderObjects ==
    {NoObject, "user-agent" :> "mine", "x-token" :> "t",
     ("user-agent" :> "mine") @@ ("x-token" :> "t"), "accept" :> "application/json"}
RequestConfigs ==
    {RequestConfig(hk, headers, ck, cookies, timeout) :
        hk \in {"set"}, headers \in HeaderObjects,
        ck \in {"object"}, cookies \in {NoObject, "sid" :> "1"},
        timeout \in {[has |-> FALSE, n |-> 0], [has |-> TRUE, n |-> 0],
                     [has |-> TRUE, n |-> 5000]}}
    \cup {RequestConfig(hk, headers, ck, cookies, timeout) :
        hk \in {"set"}, headers \in HeaderObjects,
        ck \in {"absent", "string"}, cookies \in {"", "sid=1"},
        timeout \in {[has |-> FALSE, n |-> 0], [has |-> TRUE, n |-> 5000]}}
    \cup {RequestConfig(hk, NoObject, ck, cookies, [has |-> FALSE, n |-> 0]) :
        hk \in {"absent", "undef"}, ck \in {"absent", "string"}, cookies \in {"", "sid=1"}}
    \cup {RequestConfig(hk, NoObject, "object", cookies, [has |-> FALSE, n |-> 0]) :
        hk \in {"absent", "undef"}, cookies \in {NoObject, "sid" :> "1"}}

NoRequest == [operation |-> "none"]

\* A config is at hand, getScannerDataRaw not called yet.
InitHeaders ==
    /\ InitBuilder /\ InitExec
    /\ comp = NoRequest
    /\ \E config \in RequestConfigs :
          made = [operator |-> "getScannerDataRaw", expressions |-> <<config>>]

\* q.getScannerDataRaw(config), up to the post
HeadersRequest ==
    /\ comp = NoRequest
    /\ comp' = RequestHeaders(HEADERS, made.expressions[1])
    /\ UNCHANGED <<builderVars, made, exec>>

NextHeaders == HeadersRequest

SpecHeaders == InitHeaders /\ [][NextHeaders]_vars

\* C28: whatever the config, the headers sent are HEADERS merged with
\* config.headers: a default header the caller does not override is sent, a
\* caller header is sent with the caller's value, and HEADERS is left as it
\* was.
C28_HeadersMerged ==
    comp # NoRequest =>
        LET config == made.expressions[1]
            given == IF config.hk = "set" THEN config.headers ELSE NoObject
        IN /\ comp.operation = "posted"
           /\ \A name \in DOMAIN HEADERS \ DOMAIN given :
                 name \in DOMAIN comp.headers /\ comp.headers[name] = HEADERS[name]
           /\ \A name \in DOMAIN given :
                 name \in DOMAIN comp.headers /\ comp.headers[name] = given[name]
           /\ comp.defaults = HEADERS

----------------------------------------------------------------------------
(* RateLimiter (specification SpecLimiter) *)

\* The clock (Date.now()) runs from 1 to MaxClock; one unit is the 100 ms a
\* waiter sleeps.
MaxClock == 7

\* new RateLimiter(maxRequests, timeWindowMs)
RateLimiter(maxRequests, timeWindowMs) ==
    [requests |-> <<>>, maxRequests |-> maxRequests, timeWindow |-> timeWindowMs]

\* this.requests.filter(time => now - time < this.timeWindow)
FilterRequests(this, now) ==
    LET inside(time) == now - time < this.timeWindow
    IN SelectSeq(this.requests, inside)

\* An isAllowed that lets one request more through.
IsAllowedOneMore(this, now) ==
    LET requests == FilterRequests(this, now)
    IN IF Len(requests) > this.maxRequests
       THEN [this |-> [this EXCEPT !.requests = requests], returned |-> FALSE]
       ELSE [this |-> [this EXCEPT !.requests = Append(requests, now)], returned |-> TRUE]

\* isAllowed() at the time now: the limiter afterwards, and what is returned
IsAllowed(this, now) ==
    LET requests == FilterRequests(this, now)
    IN IF Len(requests) >= this.maxRequests
       THEN [this |-> [this EXCEPT !.requests = requests], returned |-> FALSE]
       ELSE [this |-> [this EXCEPT !.requests = Append(requests, now)], returned |-> TRUE]

NoStatus == [remaining |-> 0, resetTime |-> 0, isLimited |-> FALSE]

\* getStatus() at the time now
GetStatus(this, now) ==
    LET requests == FilterRequests(this, now)
        remaining == IF this.maxRequests - Len(requests) > 0
                     THEN this.maxRequests - Len(requests) ELSE 0
    IN [this |-> [this EXCEPT !.requests = requests],
        returned |-> [remaining |-> remaining,
                      resetTime |-> IF requests # <<>> /\ requests[1] # 0
                                    THEN requests[1] + this.timeWindow ELSE now,
                      isLimited |-> remaining = 0]]

LimiterParams == {RateLimiter(m, w) : m \in {1, 2}, w \in {2, 3}}

\* comp holds the limiter, the clock, the times at which isAllowed returned
\* true, the waiter of waitForNext and what the last call returned.
InitLimiter ==
    /\ InitBuilder /\ InitExec
    /\ made = NoMade
    /\ \E this \in LimiterParams :
          comp = [this |-> this, now |-> 1, granted |-> <<>>, pc |-> "idle", slept |-> 0,
                  allowed |-> FALSE, status |-> NoStatus]

\* Time passes.
LimiterTick ==
    /\ comp.now < MaxClock
    /\ comp' = [comp EXCEPT !.now = @ + 1]
    /\ made' = [operator |-> "tick", expressions |-> <<>>]
    /\ UNCHANGED <<builderVars, exec>>

\* limiter.isAllowed()
LimiterIsAllowed ==
    /\ LET r == IsAllowed(comp.this, comp.now)
       IN comp' = [comp EXCEPT !.this = r.this, !.allowed = r.returned,
                               !.granted = IF r.returned THEN Append(@, comp.now) ELSE @]
    /\ made' = [operator |-> "isAllowed", expressions |-> <<>>]
    /\ UNCHANGED <<builderVars, exec>>

\* limiter.waitForNext(), up to its return or its first await
LimiterWaitForNext ==
    /\ comp.pc = "idle"
    /\ LET r == IsAllowed(comp.this, comp.now)
       IN comp' = [comp EXCEPT !.this = r.this, !.allowed = r.returned,
                               !.granted = IF r.returned THEN Append(@, comp.now) ELSE @,
                               !.pc = IF r.returned THEN "idle" ELSE "sleeping",
                               !.slept = comp.now]
    /\ made' = [operator |-> "waitForNext", expressions |-> <<>>]
    /\ UNCHANGED <<builderVars, exec>>

\* The waiter's timer has fired: the loop of waitForNext calls isAllowed
\* again.
LimiterWake ==
    /\ comp.pc = "sleeping"
    /\ comp.now > comp.slept
    /\ LET r == IsAllowed(comp.this, comp.now)
       IN comp' = [comp EXCEPT !.this = r.this, !.allowed = r.returned,
                               !.granted = IF r.returned THEN Append(@, comp.now) ELSE @,
                               !.pc = IF r.returned THEN "idle" ELSE "sleeping",
                               !.slept = comp.now]
    /\ made' = [operator |-> "waitForNext", expressions |-> <<"setTimeout">>]
    /\ UNCHANGED <<builderVars, exec>>

\* limiter.getStatus()
LimiterGetStatus ==
    /\ LET r == GetStatus(comp.this, comp.now)
       IN comp' = [comp EXCEPT !.this = r.this, !.status = r.returned]
    /\ made' = [operator |-> "getStatus", expressions |-> <<>>]
    /\ UNCHANGED <<builderVars, exec>>

NextLimiter ==
    \/ LimiterTick
    \/ LimiterIsAllowed
    \/ LimiterWaitForNext
    \/ LimiterWake
    \/ LimiterGetStatus

SpecLimiter == InitLimiter /\ [][NextLimiter]_vars

\* The calls of isAllowed that returned true at a time from a to b.
GrantedIn(a, b) == {i \in DOMAIN comp.granted : a <= comp.granted[i] /\ comp.granted[i] <= b}

\* C29: in every span of time shorter than timeWindow isAllowed returned true
\* at most maxRequests times (the calls made by waitForNext included); a
\* call that returns false records nothing; and the remaining of getStatus is
\* maxRequests less the number of recorded requests that are still inside
\* the window.
C29_RateLimited ==
    /\ [](/\ \A a \in 1..MaxClock :
                Cardinality(GrantedIn(a, a + comp.this.timeWindow - 1))
                    <= comp.this.maxRequests
          /\ made.operator = "getStatus" =>
                comp.status.remaining
                    = comp.this.maxRequests
                        - Cardinality(GrantedIn(comp.now - comp.this.timeWindow + 1, comp.now)))
    /\ [][(made'.operator \in {"isAllowed", "waitForNext"} /\ ~comp'.allowed) =>
             /\ comp'.this.requests = FilterRequests(comp.this, comp.now)
             /\ comp'.granted = comp.granted]_vars

\* The limit was reached inside one window and a call was turned away; a
\* later getStatus, the window having passed, shows all requests remaining.
C29_Reached ==
    /\ made.operator = "getStatus"
    /\ comp.this.maxRequests = 2
    /\ Len(comp.granted) = 2
    /\ comp.status.remaining = 2
    /\ comp.this.requests = <<>>

----------------------------------------------------------------------------
(* KLineDataCollector.collectInitialData (specifications SpecCollect and
   SpecCollectLive) *)

\* this.maxRetries and this.timeframes, as the constructor sets them
MaxRetries == 3
Timeframes == <<"1", "3", "5", "15", "30", "60", "240">>

\* The tickers handed to collectInitialData: lists of up to MaxTickers names.
MaxTickers == 2
TickerNames == {"BINANCE:BTCUSDT", "NASDAQ:AAPL"}
TickerArgs == UNION {[1..n -> TickerNames] : n \in 0..MaxTickers}

\* Every (ticker, timeframe) pair by its place, in the order of the two
\* loops.
Pair(i, j) == [i |-> i, timeframe |-> Timeframes[j]]
RECURSIVE PairsFrom(_, _, _)
PairsFrom(tickers, i, j) ==
    IF i > Len(tickers) THEN <<>>
    ELSE IF j > Len(Timeframes) THEN PairsFrom(tickers, i + 1, 1)
    ELSE <<Pair(i, j)>> \o PairsFrom(tickers, i, j + 1)

\* A loop that tries once more than maxRetries allows.
ShouldAttemptOnceMore(c) == c.retries <= MaxRetries /\ ~c.success

\* while (retries < this.maxRetries && !success)
ShouldAttempt(c) == c.retries < MaxRetries /\ ~c.success

\* comp holds the call: the tickers, whether a chart session exists, the
\* place in the two loops, retries and success, the position in the code,
\* and beside them the attempts made for the pair at hand and the pairs that
\* were left, in the order of their leaving.
InitCollect ==
    /\ InitBuilder /\ InitExec
    /\ made = NoMade
    /\ \E tickers \in TickerArgs, chart \in BOOLEAN :
          comp = [tickers |-> tickers, chart |-> chart, i |-> 1, j |-> 1,
                  retries |-> 0, success |-> FALSE, pc |-> "called",
                  attempts |-> 0, left |-> <<>>]

\* collectInitialData(tickers) up to the first pair, or to its end when
\* there is no ticker
CollectStart ==
    /\ comp.pc = "called"
    /\ comp' = [comp EXCEPT !.pc = IF comp.tickers = <<>> THEN "completed" ELSE "while"]
    /\ made' = [operator |-> "collectInitialData", expressions |-> <<>>]
    /\ UNCHANGED <<builderVars, exec>>

\* The while condition holds: collectDataForSymbolTimeframe is called and
\* awaited.
CollectAttempt ==
    /\ comp.pc = "while"
    /\ ShouldAttempt(comp)
    /\ comp' = [comp EXCEPT !.pc = "attempt", !.attempts = @ + 1]
    /\ made' = [operator |-> "collectDataForSymbolTimeframe", expressions |-> <<>>]
    /\ UNCHANGED <<builderVars, exec>>

\* The attempt resolves: there is no chart, the data arrived, or the error
\* handler skipped.
CollectResolve ==
    /\ comp.pc = "attempt"
    /\ comp' = [comp EXCEPT !.pc = "while", !.success = TRUE]
    /\ made' = [operator |-> "resolve", expressions |-> <<>>]
    /\ UNCHANGED <<builderVars, exec>>

\* The attempt rejects (timeout, or an error to retry): the catch block.
CollectReject ==
    /\ comp.pc = "attempt"
    /\ comp.chart
    /\ comp' = [comp EXCEPT !.retries = @ + 1,
                            !.pc = IF comp.retries + 1 < MaxRetries THEN "backoff"
                                   ELSE "while"]
    /\ made' = [operator |-> "reject", expressions |-> <<>>]
    /\ UNCHANGED <<builderVars, exec>>

\* await this.delay(this.requestDelay * retries) is over
CollectBackoff ==
    /\ comp.pc = "backoff"
    /\ comp' = [comp EXCEPT !.pc = "while"]
    /\ made' = [operator |-> "delay", expressions |-> <<"retry">>]
    /\ UNCHANGED <<builderVars, exec>>

\* The while condition fails: the failure is logged if there was no success,
\* and the delay before the next pair is awaited.
CollectLeave ==
    /\ comp.pc = "while"
    /\ ~ShouldAttempt(comp)
    /\ comp' = [comp EXCEPT !.pc = "pause",
                            !.left = Append(@, Pair(comp.i, comp.j))]
    /\ made' = [operator |-> "leave", expressions |-> <<>>]
    /\ UNCHANGED <<builderVars, exec>>

\* await this.delay(this.requestDelay) is over: the next timeframe, the next
\* ticker, or the end.
CollectNext ==
    /\ comp.pc = "pause"
    /\ LET lastFrame == comp.j = Len(Timeframes)
           lastTicker == comp.i = Len(comp.tickers)
       IN comp' = [comp EXCEPT !.j = IF lastFrame THEN 1 ELSE @ + 1,
                               !.i = IF lastFrame THEN @ + 1 ELSE @,
                               !.retries = 0, !.success = FALSE, !.attempts = 0,
                               !.pc = IF lastFrame /\ lastTicker THEN "completed"
                                      ELSE "while"]
    /\ made' = [operator |-> "delay", expressions |-> <<"next">>]
    /\ UNCHANGED <<builderVars, exec>>

NextCollect ==
    \/ CollectStart
    \/ CollectAttempt
    \/ CollectResolve
    \/ CollectReject
    \/ CollectBackoff
    \/ CollectLeave
    \/ CollectNext

SpecCollect == InitCollect /\ [][NextCollect]_vars

\* Code that can run does run, timers fire and every attempt settles.
SpecCollectLive == SpecCollect /\ WF_vars(NextCollect)

\* C30: for every (ticker, timeframe) pair the attempt is made at least once
\* and at most maxRetries times, no attempt follows a successful one, and a
\* pair whose attempts are exhausted is left for the next one; the pairs are
\* left in the order of the loops, and when every attempt settles
\* collectInitialData completes, having left every pair.
C30_Collects ==
    /\ [](/\ comp.attempts <= MaxRetries
          /\ comp.pc = "pause" =>
                /\ comp.attempts >= 1
                /\ ~comp.success => comp.attempts = MaxRetries
          /\ \A n \in DOMAIN comp.left :
                comp.left[n] = PairsFrom(comp.tickers, 1, 1)[n]
          /\ comp.pc = "completed" => comp.left = PairsFrom(comp.tickers, 1, 1))
    /\ [][/\ comp.success => comp'.attempts <= comp.attempts
          /\ comp.pc = "pause" => comp'.pc \in {"while", "completed"}]_vars
    /\ <>(comp.pc = "completed")

\* The second pair is being left after three failed attempts.
C30_Reached ==
    /\ comp.pc = "pause"
    /\ Len(comp.left) = 2
    /\ comp.attempts = MaxRetries /\ ~comp.success
    /\ comp.chart

====
